---- MODULE Spec2Model ----
(***************************************************************************)
(* Model of src/ui/galaxy.ts: the redraw-protocol interpreter of veonim.   *)
(* A redraw batch is an array of entries [method, argTuple, ...]; the      *)
(* onRedraw handler dispatches them to the handlers registered on `r`,     *)
(* which paint on the canvas grid `ui`.                                    *)
(*                                                                         *)
(* Lengths are in cells.  An absent (undefined / null) value is the empty  *)
(* sequence Null and a present value v is <<v>>.  A display colour (a JS   *)
(* string such as '#ccc') is the sequence of its hex digits.               *)
(***************************************************************************)
EXTENDS Integers, Sequences, FiniteSets, TLC

VARIABLES
  cols, rows,        \* ui.cols, ui.rows
  grid,              \* the canvas, one value per cell <<row, col>>
  color,             \* the canvas fill colour chosen by ui.setColor
  cursor,            \* ui.cursor: the logical cursor [row, col]
  shape, size,       \* the cursor shape and size given to ui.setCursorShape
  shown,             \* the cursor position last committed by ui.moveCursor
  shownShape,        \* the cursor [shape, size] last committed by ui.moveCursor
  colors,            \* the theme defaults [fg, bg, sp]
  nextAttrs,         \* the pending attribute set (Null until highlight_set)
  modes,             \* the mode registry: name -> Null or <<Mode>>
  lastScrollRegion,  \* Null or <<ScrollRegion>>
  pending,           \* colour resolutions awaited by mode_info_set
  timers,            \* the scheduled ui.moveCursor callbacks, oldest first
  batch, ix, pc,     \* the batch being dispatched, the loop index, the position
  batchNo,           \* history: how many batches have arrived
  grid0,             \* history: the canvas when the current batch arrived
  used,              \* history: the region the last scroll call operated on
  regionBatch,       \* history: the batch that stored lastScrollRegion
  issued,            \* history: descriptors passed to mode_info_set, per name
  work,              \* history: the entries and batches received so far
  calls,             \* history: the handler calls made for the last entry
  inked,             \* history: the cells the last entry gave to ui.fillText
  answer,            \* history: the last request getColor answered, with its bg
  latest             \* history: the descriptor last dispatched, per name

vars == <<cols, rows, grid, color, cursor, shape, size, shown, shownShape,
          colors, nextAttrs, modes, lastScrollRegion, pending, timers, batch,
          ix, pc, batchNo, grid0, used, regionBatch, issued, work, calls,
          inked, answer, latest>>

Null == <<>>
Some(v) == <<v>>

(***************************************************************************)
(* Bounds of the model.                                                    *)
(***************************************************************************)
\* the transport delivers at most MaxWork units, a batch of n entries being n + 1
MaxWork == 5

(***************************************************************************)
(* Colours.                                                                *)
(***************************************************************************)
\* color & (0xff << shift) >> shift, for the non-negative 24-bit colours
Byte(c, shift) == (c \div (2 ^ shift)) % 256

\* Number.prototype.toString(16) of a byte: one or two hex digits
toString16(b) == IF b < 16 THEN <<b>> ELSE <<b \div 16, b % 16>>

hexPair(c, shift) ==
  LET hex == toString16(Byte(c, shift))
  IN  IF Len(hex) < 2 THEN <<0>> \o hex ELSE hex

asColor(c) == hexPair(c, 16) \o hexPair(c, 8) \o hexPair(c, 0)

defaultColors == [fg |-> <<12, 12, 12>>, bg |-> <<2, 2, 2>>, sp |-> <<15, 0, 0>>]

\* JavaScript truthiness of an optional number: present and not 0
Truthy(opt) == opt # Null /\ opt[1] # 0

(***************************************************************************)
(* The canvas grid (./canvasgrid, not part of the sources at hand).        *)
(***************************************************************************)
Transparent == [ink |-> <<>>, bg |-> Null]
Filled(c) == [ink |-> <<>>, bg |-> Some(c)]

Cells(nc, nr) == (0 .. nr - 1) \X (0 .. nc - 1)
InGrid(s, row, col) == row \in 0 .. s.rows - 1 /\ col \in 0 .. s.cols - 1

setColor(s, c) == [s EXCEPT !.color = c]

fillRect(s, col, row, w, h) ==
  [s EXCEPT !.grid =
     [p \in DOMAIN s.grid |->
        IF /\ p[1] >= row /\ p[1] < row + h
           /\ p[2] >= col /\ p[2] < col + w
        THEN Filled(s.color) ELSE s.grid[p]]]

fillText(s, ch, col, row) ==
  LET s1 == [s EXCEPT !.inked = Append(@, [row |-> row, col |-> col])]
  IN  IF InGrid(s, row, col)
      THEN [s1 EXCEPT !.grid[<<row, col>>].ink = Append(@, [ch |-> ch, fg |-> s.color])]
      ELSE s1

\* the copied sub-image: cell <<dr, dc>> of it is the cell at <<top + dr, left + dc>>
getImageData(s, left, top, w, h) ==
  [q \in (0 .. h - 1) \X (0 .. w - 1) |->
     IF InGrid(s, top + q[1], left + q[2])
     THEN s.grid[<<top + q[1], left + q[2]>>] ELSE Transparent]

putImageData(s, slice, left, top) ==
  [s EXCEPT !.grid =
     [p \in DOMAIN s.grid |->
        IF <<p[1] - top, p[2] - left>> \in DOMAIN slice
        THEN slice[<<p[1] - top, p[2] - left>>] ELSE s.grid[p]]]

clear(s) == [s EXCEPT !.grid = [p \in DOMAIN s.grid |-> Filled(s.color)]]

setCursorShape(s, sh, sz) == [s EXCEPT !.shape = sh, !.size = sz]

(***************************************************************************)
(* Scrolling.                                                              *)
(***************************************************************************)
defaultScrollRegion(s) == [top |-> 0, left |-> 0, right |-> s.cols, bottom |-> s.rows]

\* mutant: the fill covers the whole width of the grid
moveRegionUpFillRow(s, amount, reg) ==
  LET slice == getImageData(s, reg.left, reg.top + amount,
                            reg.right - reg.left + 1,
                            reg.bottom - (reg.top + amount) + 1)
      s1 == putImageData(s, slice, reg.left, reg.top)
      s2 == setColor(s1, s.colors.bg)
  IN  fillRect(s2, 0, reg.bottom - amount + 1, s.cols, amount)

\* mutant: the fill starts one row too high
moveRegionUpFillHigh(s, amount, reg) ==
  LET slice == getImageData(s, reg.left, reg.top + amount,
                            reg.right - reg.left + 1,
                            reg.bottom - (reg.top + amount) + 1)
      s1 == putImageData(s, slice, reg.left, reg.top)
      s2 == setColor(s1, s.colors.bg)
  IN  fillRect(s2, reg.left, reg.bottom - amount, reg.right - reg.left + 1, amount)

moveRegionUp(s, amount, reg) ==
  LET slice == getImageData(s, reg.left, reg.top + amount,
                            reg.right - reg.left + 1,
                            reg.bottom - (reg.top + amount) + 1)
      s1 == putImageData(s, slice, reg.left, reg.top)
      s2 == setColor(s1, s.colors.bg)
  IN  fillRect(s2, reg.left, reg.bottom - amount + 1, reg.right - reg.left + 1, amount)

\* mutant: the copied sub-image is pasted one row too low
moveRegionDownPasteLow(s, amount, reg) ==
  LET slice == getImageData(s, reg.left, reg.top,
                            reg.right - reg.left + 1,
                            reg.bottom - (reg.top + amount) + 1)
      s1 == putImageData(s, slice, reg.left, reg.top + amount + 1)
      s2 == setColor(s1, s.colors.bg)
  IN  fillRect(s2, reg.left, reg.top, reg.right - reg.left + 1, amount)

moveRegionDown(s, amount, reg) ==
  LET slice == getImageData(s, reg.left, reg.top,
                            reg.right - reg.left + 1,
                            reg.bottom - (reg.top + amount) + 1)
      s1 == putImageData(s, slice, reg.left, reg.top + amount)
      s2 == setColor(s1, s.colors.bg)
  IN  fillRect(s2, reg.left, reg.top, reg.right - reg.left + 1, amount)

\* mutant: a value that is none of the three names gives the line shape
cursorShapeTypeElseLine(type) ==
  IF type = Some("block") THEN "block"
  ELSE IF type = Some("horizontal") THEN "underline"
  ELSE IF type = Some("vertical") THEN "line"
  ELSE "line"

cursorShapeType(type) ==
  IF type = Some("block") THEN "block"
  ELSE IF type = Some("horizontal") THEN "underline"
  ELSE IF type = Some("vertical") THEN "line"
  ELSE "block"

(***************************************************************************)
(* The handlers registered on r.  Each takes the program state s (a record *)
(* of the variables the handlers read and write) and gives the state after *)
(* the call; s.err is set when the call throws.                            *)
(***************************************************************************)
r_clear(s) == clear(setColor(s, s.colors.bg))

\* mutant: 0 is taken for the sentinel too
r_update_fg_positive(s, fg) == IF fg > 0 THEN [s EXCEPT !.colors.fg = asColor(fg)] ELSE s

r_update_fg(s, fg) == IF fg > -1 THEN [s EXCEPT !.colors.fg = asColor(fg)] ELSE s

r_update_bg(s, bg) == IF bg > -1 THEN [s EXCEPT !.colors.bg = asColor(bg)] ELSE s

r_update_sp(s, sp) == IF sp > -1 THEN [s EXCEPT !.colors.sp = asColor(sp)] ELSE s

\* mutant: the move is committed to the visible cursor at once
r_cursor_gotoCommits(s, row, col) ==
  [s EXCEPT !.cursor = [row |-> row, col |-> col],
            !.shown = [row |-> row, col |-> col]]

r_cursor_goto(s, row, col) == [s EXCEPT !.cursor = [row |-> row, col |-> col]]

r_eol_clear(s) ==
  fillRect(setColor(s, s.colors.bg), s.cursor.col, s.cursor.row, s.cols - 1, 1)

r_set_scroll_region(s, top, bottom, left, right) ==
  [s EXCEPT !.lastScrollRegion =
     Some([top |-> top, bottom |-> bottom, left |-> left, right |-> right])]

\* mutant: the descriptor is registered before its colour is resolved
modeInfoEager(s, mi) ==
  LET info == [shape |-> cursorShapeType(mi.cursor_shape), size |-> mi.cell_percentage]
      s1 == [s EXCEPT !.modes[mi.name] =
               Some([shape |-> info.shape, size |-> info.size, color |-> Null])]
  IN  IF Truthy(mi.hl_id)
      THEN [s1 EXCEPT !.pending =
              Append(@, [name |-> mi.name, shape |-> info.shape,
                         size |-> info.size, hl_id |-> mi.hl_id[1]])]
      ELSE s1

\* the part of the async callback that runs for one descriptor before it awaits
modeInfo(s, mi) ==
  LET info == [shape |-> cursorShapeType(mi.cursor_shape), size |-> mi.cell_percentage]
  IN  IF Truthy(mi.hl_id)
      THEN [s EXCEPT !.pending =
              Append(@, [name |-> mi.name, shape |-> info.shape,
                         size |-> info.size, hl_id |-> mi.hl_id[1]])]
      ELSE [s EXCEPT !.modes[mi.name] =
              Some([shape |-> info.shape, size |-> info.size, color |-> Null])]

RECURSIVE r_mode_info_set(_, _)
r_mode_info_set(s, infos) ==
  IF infos = <<>> THEN s
  ELSE r_mode_info_set(modeInfo(s, Head(infos)), Tail(infos))

\* the rest of the callback, run when getColor(hl_id) has answered with bg
modeInfoResolved(s, p, bg) ==
  LET c == IF Truthy(bg) THEN asColor(bg[1]) ELSE s.colors.fg
  IN  [s EXCEPT !.modes[p.name] =
         Some([shape |-> p.shape, size |-> p.size, color |-> Some(c)])]

r_mode_change(s, mode) ==
  LET info == IF mode \in DOMAIN s.modes THEN s.modes[mode] ELSE Null
  IN  IF info # Null THEN setCursorShape(s, info[1].shape, info[1].size) ELSE s

defaultAttrs == [foreground |-> Null, background |-> Null, reverse |-> FALSE]

r_highlight_set(s, attrs) ==
  LET fg == IF Truthy(attrs.foreground) THEN asColor(attrs.foreground[1]) ELSE s.colors.fg
      bg == IF Truthy(attrs.background) THEN asColor(attrs.background[1]) ELSE s.colors.bg
  IN  [s EXCEPT !.nextAttrs =
         Some([foreground |-> attrs.foreground, background |-> attrs.background,
               reverse |-> attrs.reverse,
               fg |-> IF attrs.reverse THEN bg ELSE fg,
               bg |-> IF attrs.reverse THEN fg ELSE bg])]

r_scroll(s, amount) ==
  LET reg == IF s.lastScrollRegion # Null THEN s.lastScrollRegion[1]
             ELSE defaultScrollRegion(s)
      moved == IF amount > 0 THEN moveRegionUp(s, amount, reg)
               ELSE moveRegionDown(s, -amount, reg)
  IN  [moved EXCEPT !.lastScrollRegion = Null, !.used = Some(reg)]

\* mutant: the cursor wraps as soon as it reaches the column count
putGlyphWrapEarly(s, ch) ==
  LET s1 == fillText(s, ch, s.cursor.col, s.cursor.row)
      s2 == [s1 EXCEPT !.cursor.col = @ + 1]
  IN  IF s2.cursor.col >= s2.cols
      THEN [s2 EXCEPT !.cursor = [row |-> s2.cursor.row + 1, col |-> 0]]
      ELSE s2

\* one turn of the loop of r.put
putGlyph(s, ch) ==
  LET s1 == fillText(s, ch, s.cursor.col, s.cursor.row)
      s2 == [s1 EXCEPT !.cursor.col = @ + 1]
  IN  IF s2.cursor.col > s2.cols
      THEN [s2 EXCEPT !.cursor = [row |-> s2.cursor.row + 1, col |-> 0]]
      ELSE s2

RECURSIVE putLoop(_, _)
putLoop(s, m) ==
  IF m = <<>> THEN s ELSE putLoop(putGlyph(s, Head(m)[1]), Tail(m))

\* mutant: the pending attribute set is dropped once the run is painted
r_putDiscards(s, m) ==
  LET total == Len(m)
  IN  IF total = 0 THEN s
      ELSE IF s.nextAttrs = Null THEN [s EXCEPT !.err = TRUE]
      ELSE LET s1 == setColor(s, s.nextAttrs[1].bg)
               s2 == fillRect(s1, s.cursor.col, s.cursor.row, total, 1)
               s3 == setColor(s2, s.nextAttrs[1].fg)
           IN  [putLoop(s3, m) EXCEPT !.nextAttrs = Null]

r_put(s, m) ==
  LET total == Len(m)
  IN  IF total = 0 THEN s
      ELSE IF s.nextAttrs = Null THEN [s EXCEPT !.err = TRUE]
      ELSE LET s1 == setColor(s, s.nextAttrs[1].bg)
               s2 == fillRect(s1, s.cursor.col, s.cursor.row, total, 1)
               s3 == setColor(s2, s.nextAttrs[1].fg)
           IN  putLoop(s3, m)

(***************************************************************************)
(* The dispatch table and the onRedraw handler.                            *)
(***************************************************************************)
api == {"clear", "update_fg", "update_bg", "update_sp", "cursor_goto",
        "eol_clear", "set_scroll_region", "mode_info_set", "mode_change",
        "highlight_set", "scroll", "put"}

\* fn(...a) for a handler other than put
call(s, method, a) ==
  CASE method = "clear" -> r_clear(s)
    [] method = "update_fg" -> r_update_fg(s, a[1])
    [] method = "update_bg" -> r_update_bg(s, a[1])
    [] method = "update_sp" -> r_update_sp(s, a[1])
    [] method = "cursor_goto" -> r_cursor_goto(s, a[1], a[2])
    [] method = "eol_clear" -> r_eol_clear(s)
    [] method = "set_scroll_region" -> r_set_scroll_region(s, a[1], a[2], a[3], a[4])
    [] method = "mode_info_set" -> r_mode_info_set(s, a[2])
    [] method = "mode_change" -> r_mode_change(s, a[1])
    [] method = "highlight_set" ->
         r_highlight_set(s, IF Len(a) = 0 THEN defaultAttrs ELSE a[1])
    [] method = "scroll" -> r_scroll(s, a[1])

\* history: fn is called with the arguments a
Called(s, method, a) == [s EXCEPT !.calls = Append(@, [method |-> method, with |-> a])]

\* args.forEach(a => fn(...a)); a throw ends the iteration
RECURSIVE forEach(_, _, _)
forEach(s, method, args) ==
  IF args = <<>> \/ s.err THEN s
  ELSE forEach(call(Called(s, method, Head(args)), method, Head(args)),
               method, Tail(args))

\* mutant: the handler is called without the test `if (fn)`
dispatchUnguarded(s, entry) ==
  IF entry.method \notin api THEN [s EXCEPT !.err = TRUE]
  ELSE IF entry.method = "put"
       THEN r_put(Called(s, entry.method, entry.args), entry.args)
  ELSE forEach(s, entry.method, entry.args)

\* mutant: put is called like the other handlers, fn(...a), once per tuple
RECURSIVE putEach(_, _)
putEach(s, args) ==
  IF args = <<>> \/ s.err THEN s
  ELSE putEach(r_put(Called(s, "put", Head(args)), <<Head(args)>>), Tail(args))

dispatchPutPerTuple(s, entry) ==
  IF entry.method \notin api THEN s
  ELSE IF entry.method = "put" THEN putEach(s, entry.args)
  ELSE forEach(s, entry.method, entry.args)

\* the body of the loop of onRedraw for the entry m[ix]
dispatch(s, entry) ==
  IF entry.method \notin api THEN s
  ELSE IF entry.method = "put"
       THEN r_put(Called(s, entry.method, entry.args), entry.args)
  ELSE forEach(s, entry.method, entry.args)

State ==
  [cols |-> cols, rows |-> rows, grid |-> grid, color |-> color,
   cursor |-> cursor, shape |-> shape, size |-> size, colors |-> colors,
   nextAttrs |-> nextAttrs, modes |-> modes,
   lastScrollRegion |-> lastScrollRegion, pending |-> pending,
   shown |-> shown, shownShape |-> shownShape,
   used |-> used, calls |-> calls, inked |-> inked, err |-> FALSE]

\* the variables take the fields of s
Becomes(s) ==
  /\ grid' = s.grid /\ color' = s.color /\ cursor' = s.cursor
  /\ shape' = s.shape /\ size' = s.size /\ colors' = s.colors
  /\ nextAttrs' = s.nextAttrs /\ modes' = s.modes
  /\ lastScrollRegion' = s.lastScrollRegion /\ pending' = s.pending
  /\ shown' = s.shown /\ shownShape' = s.shownShape
  /\ used' = s.used /\ calls' = s.calls /\ inked' = s.inked

\* mutant: the loop walks the batch from its end
nextEntryFromEnd == batch[Len(batch) - ix]

\* the entry the loop of onRedraw is at
nextEntry == batch[ix + 1]

RECURSIVE namesOf(_)
namesOf(infos) ==
  IF infos = <<>> THEN <<>> ELSE <<Head(infos).name>> \o namesOf(Tail(infos))

\* history: the names of the descriptors an entry passes to mode_info_set
RECURSIVE describedIn(_)
describedIn(args) ==
  IF args = <<>> THEN <<>> ELSE namesOf(Head(args)[2]) \o describedIn(Tail(args))

Count(seq, x) == Cardinality({i \in DOMAIN seq : seq[i] = x})

\* history: the descriptors an entry passes to mode_info_set, in order
RECURSIVE descriptorsIn(_)
descriptorsIn(args) ==
  IF args = <<>> THEN <<>> ELSE Head(args)[2] \o descriptorsIn(Tail(args))

\* history: the last descriptor of the name n in infos, if any
lastOf(infos, n) ==
  LET at == {i \in DOMAIN infos : infos[i].name = n}
  IN  IF at = {} THEN Null
      ELSE Some(infos[CHOOSE i \in at : \A j \in at : j <= i])

\* a batch arrives: onRedraw's callback starts
Arrive(B) ==
  /\ pc = "idle"
  /\ \E m \in B :
       /\ work + Len(m) + 1 <= MaxWork
       /\ batch' = m
       /\ work' = work + Len(m) + 1
  /\ ix' = 0
  /\ pc' = "loop"
  /\ batchNo' = batchNo + 1
  /\ grid0' = grid
  /\ UNCHANGED <<cols, rows, grid, color, cursor, shape, size, shown, shownShape,
                 colors, nextAttrs, modes, lastScrollRegion, pending, timers,
                 used, regionBatch, issued, calls, inked, answer, latest>>

\* one turn of the loop; a throw of a handler leaves the callback
Dispatch ==
  /\ pc = "loop"
  /\ ix < Len(batch)
  /\ LET s == dispatch([State EXCEPT !.calls = <<>>, !.inked = <<>>], nextEntry)
     IN  /\ Becomes(s)
         /\ IF s.err
            THEN pc' = "idle" /\ batch' = <<>> /\ ix' = 0
            ELSE pc' = pc /\ batch' = batch /\ ix' = ix + 1
         /\ regionBatch' =
              IF nextEntry.method = "set_scroll_region" /\ nextEntry.args # <<>>
              THEN batchNo ELSE regionBatch
         /\ issued' =
              IF nextEntry.method = "mode_info_set"
              THEN [n \in DOMAIN issued |->
                      issued[n] + Count(describedIn(nextEntry.args), n)]
              ELSE issued
         /\ latest' =
              IF nextEntry.method = "mode_info_set"
              THEN [n \in DOMAIN latest |->
                      IF lastOf(descriptorsIn(nextEntry.args), n) # Null
                      THEN lastOf(descriptorsIn(nextEntry.args), n) ELSE latest[n]]
              ELSE latest
  /\ UNCHANGED <<cols, rows, timers, batchNo, grid0, work, answer>>

\* the loop is over: the rest of the callback
EndBatch ==
  /\ pc = "loop"
  /\ ix = Len(batch)
  /\ lastScrollRegion' = Null
  /\ timers' = Append(timers, [batch |-> batchNo, final |-> cursor])
  /\ pc' = "idle" /\ batch' = <<>> /\ ix' = 0
  /\ calls' = <<>> /\ inked' = <<>>
  /\ UNCHANGED <<cols, rows, grid, color, cursor, shape, size, shown, shownShape,
                 colors, nextAttrs, modes, pending, batchNo, grid0, used,
                 regionBatch, issued, work, answer, latest>>

\* the oldest timer fires: () => ui.moveCursor()
moveCursor ==
  /\ pc = "idle"
  /\ timers # <<>>
  /\ shown' = cursor
  /\ shownShape' = [shape |-> shape, size |-> size]
  /\ timers' = Tail(timers)
  /\ UNCHANGED <<cols, rows, grid, color, cursor, shape, size, colors,
                 nextAttrs, modes, lastScrollRegion, pending, batch, ix, pc,
                 batchNo, grid0, used, regionBatch, issued, work, calls, inked,
                 answer, latest>>

Without(seq, i) == SubSeq(seq, 1, i - 1) \o SubSeq(seq, i + 1, Len(seq))

\* getColor answers one awaited request; the callback of mode_info_set resumes
Resolve(Bgs) ==
  /\ pc = "idle"
  /\ \E i \in DOMAIN pending, bg \in Bgs :
       /\ Becomes(modeInfoResolved([State EXCEPT !.pending = Without(pending, i)],
                                   pending[i], bg))
       /\ answer' = Some([request |-> pending[i], bg |-> bg])
  /\ UNCHANGED <<cols, rows, timers, batch, ix, pc, batchNo, grid0,
                 regionBatch, issued, work, latest>>

(***************************************************************************)
(* Initial states.  A fresh canvas is transparent; the painted canvas is   *)
(* the state after highlight_set({}) and one put per row with the theme    *)
(* defaults, every cell holding a glyph of its own.  Glyphs are character  *)
(* codes.                                                                  *)
(***************************************************************************)
ModeNames == {"normal", "insert"}

themeAttrs ==
  [foreground |-> Null, background |-> Null, reverse |-> FALSE,
   fg |-> defaultColors.fg, bg |-> defaultColors.bg]

glyphAt(nc, p) == 1000 + p[1] * nc + p[2]

paintedCell(nc, p) ==
  [ink |-> <<[ch |-> glyphAt(nc, p), fg |-> defaultColors.fg]>>,
   bg |-> Some(defaultColors.bg)]

InitCommon ==
  /\ shape = "block" /\ size = Null
  /\ shown = [row |-> 0, col |-> 0]
  /\ shownShape = [shape |-> "block", size |-> Null]
  /\ colors = defaultColors
  /\ modes = [n \in ModeNames |-> Null]
  /\ lastScrollRegion = Null
  /\ pending = <<>> /\ timers = <<>>
  /\ batch = <<>> /\ ix = 0 /\ pc = "idle"
  /\ batchNo = 0 /\ used = Null /\ regionBatch = 0
  /\ issued = [n \in ModeNames |-> 0]
  /\ work = 0
  /\ calls = <<>> /\ inked = <<>> /\ answer = Null
  /\ latest = [n \in ModeNames |-> Null]
  /\ grid0 = grid

InitFresh(sizes) ==
  /\ \E sz \in sizes : cols = sz[1] /\ rows = sz[2]
  /\ grid = [p \in Cells(cols, rows) |-> Transparent]
  /\ color = <<0, 0, 0>>
  /\ cursor = [row |-> 0, col |-> 0]
  /\ nextAttrs = Null
  /\ InitCommon

InitPainted(sizes) ==
  /\ \E sz \in sizes : cols = sz[1] /\ rows = sz[2]
  /\ grid = [p \in Cells(cols, rows) |-> paintedCell(cols, p)]
  /\ color = defaultColors.fg
  /\ cursor = [row |-> rows - 1, col |-> cols]
  /\ nextAttrs = Some(themeAttrs)
  /\ InitCommon

(***************************************************************************)
(* Inputs: the batches the transport delivers.                             *)
(***************************************************************************)
E(method, args) == [method |-> method, args |-> args]

Batches(A) == UNION {[1 .. n -> A] : n \in 0 .. MaxWork - 1}

RouterEntries ==
  { E("cursor_goto", <<<<2, 3>>>>),
    E("cursor_goto", <<<<0, 1>>, <<1, 0>>>>),
    E("highlight_set", <<<<defaultAttrs>>>>),
    E("put", <<<<97>>, <<98>>, <<99>>>>),
    E("put", <<<<120>>>>),
    E("set_scroll_region", <<<<1, 3, 2, 6>>>>),
    E("scroll", <<<<1>>>>) }

Init == InitFresh({<<10, 5>>})

Next ==
  \/ Arrive(Batches(RouterEntries))
  \/ Dispatch
  \/ EndBatch
  \/ moveCursor

Spec == Init /\ [][Next]_vars

ModeInfo(name, cursor_shape, cell_percentage, hl_id) ==
  [name |-> name, cursor_shape |-> cursor_shape,
   cell_percentage |-> cell_percentage, hl_id |-> hl_id]

ModeEntries ==
  { E("mode_info_set", <<<<TRUE, <<ModeInfo("normal", Some("vertical"), Some(25), Null)>>>>>>),
    E("mode_info_set", <<<<TRUE, <<ModeInfo("normal", Some("horizontal"), Some(20), Some(5)),
                                   ModeInfo("insert", Null, Null, Some(7))>>>>>>),
    E("mode_change", <<<<"normal">>>>),
    E("mode_change", <<<<"insert">>>>),
    E("mode_change", <<<<"visual">>>>) }

\* what getColor may answer as bg: nothing, black, a colour
ResolvedBgs == {Null, Some(0), Some(255 * 65536)}

InitModes == InitFresh({<<2, 1>>})

NextModes ==
  \/ Arrive(Batches(ModeEntries))
  \/ Dispatch
  \/ EndBatch
  \/ moveCursor
  \/ Resolve(ResolvedBgs)

SpecModes == InitModes /\ [][NextModes]_vars

Attrs(foreground, background, reverse) ==
  [foreground |-> foreground, background |-> background, reverse |-> reverse]

\* 0xff0000, 0x0a0b0c and 0xffffff
Red == 255 * 65536
Dim == 10 * 65536 + 11 * 256 + 12
White == 2 ^ 24 - 1

PaletteEntries ==
  { E("update_fg", <<<<-1>>>>),
    E("update_fg", <<<<0>>>>),
    E("update_fg", <<<<Red>>>>),
    E("update_bg", <<<<-1>>>>),
    E("update_bg", <<<<Dim>>>>),
    E("update_sp", <<<<-1>>>>),
    E("update_sp", <<<<White>>>>),
    E("set_scroll_region", <<<<0, 0, 0, 1>>>>),
    E("highlight_set", <<<<Attrs(Some(White), Null, FALSE)>>>>) }

AttrEntries ==
  { E("highlight_set", <<<<Attrs(Some(0), Null, FALSE)>>>>),
    E("highlight_set", <<<<Attrs(Some(Red), Some(Dim), TRUE)>>>>),
    E("highlight_set", <<<<Attrs(Null, Some(0), TRUE)>>>>),
    E("highlight_set", <<<<>>>>),
    E("update_fg", <<<<White>>>>),
    E("cursor_goto", <<<<0, 1>>>>) }

InitPalette == InitFresh({<<2, 1>>})

NextPalette ==
  \/ Arrive(Batches(PaletteEntries))
  \/ Dispatch
  \/ EndBatch
  \/ moveCursor

SpecPalette == InitPalette /\ [][NextPalette]_vars

NextAttrs ==
  \/ Arrive(Batches(AttrEntries))
  \/ Dispatch
  \/ EndBatch
  \/ moveCursor

SpecAttrs == InitPalette /\ [][NextAttrs]_vars

PutEntries ==
  { E("highlight_set", <<<<Attrs(Some(Red), Null, FALSE)>>>>),
    E("cursor_goto", <<<<2, 3>>>>),
    E("cursor_goto", <<<<1, 2>>>>),
    E("put", <<<<97>>, <<98>>, <<99>>>>),
    E("put", <<<<97>>, <<98>>>>),
    E("put", <<>>) }

InitPut == InitFresh({<<10, 5>>, <<4, 2>>})

NextPut ==
  \/ Arrive(Batches(PutEntries))
  \/ Dispatch
  \/ EndBatch
  \/ moveCursor

SpecPut == InitPut /\ [][NextPut]_vars

ScrollEntries ==
  { E("set_scroll_region", <<<<0, 4, 0, 9>>>>),
    E("set_scroll_region", <<<<1, 3, 2, 6>>>>),
    E("scroll", <<<<2>>>>),
    E("scroll", <<<<-2>>>>),
    E("scroll", <<<<1>>>>) }

InitScroll == InitPainted({<<10, 5>>})

NextScroll ==
  \/ Arrive(Batches(ScrollEntries))
  \/ Dispatch
  \/ EndBatch
  \/ moveCursor

SpecScroll == InitScroll /\ [][NextScroll]_vars

\* batches with a command name no handler is registered for
UnknownEntries ==
  { E("bell", <<<<>>>>),
    E("highlight_set", <<<<Attrs(Some(Red), Null, FALSE)>>>>),
    E("put", <<<<120>>>>),
    E("cursor_goto", <<<<1, 2>>>>),
    E("set_scroll_region", <<<<0, 1, 0, 3>>>>),
    E("mode_info_set", <<<<TRUE, <<ModeInfo("normal", Some("vertical"), Some(25), Null)>>>>>>) }

InitUnknown == InitFresh({<<4, 2>>})

NextUnknown ==
  \/ Arrive(Batches(UnknownEntries))
  \/ Dispatch
  \/ EndBatch
  \/ moveCursor

SpecUnknown == InitUnknown /\ [][NextUnknown]_vars

\* batches that move the cursor and change the mode
CursorEntries ==
  { E("mode_info_set", <<<<TRUE, <<ModeInfo("normal", Some("vertical"), Some(25), Null)>>>>>>),
    E("mode_info_set", <<<<TRUE, <<ModeInfo("insert", Some("horizontal"), Some(20), Null)>>>>>>),
    E("mode_change", <<<<"normal">>>>),
    E("mode_change", <<<<"insert">>>>),
    E("cursor_goto", <<<<1, 2>>>>),
    E("cursor_goto", <<<<7, 20>>>>) }

InitCursor == InitFresh({<<4, 2>>})

NextCursor ==
  \/ Arrive(Batches(CursorEntries))
  \/ Dispatch
  \/ EndBatch
  \/ moveCursor

SpecCursor == InitCursor /\ [][NextCursor]_vars

\* batches describing modes with every kind of cursor_shape value
ShapeEntries ==
  { E("mode_info_set", <<<<TRUE, <<ModeInfo("normal", Some("block"), Null, Null)>>>>>>),
    E("mode_info_set", <<<<TRUE, <<ModeInfo("normal", Some("horizontal"), Some(20), Null)>>>>>>),
    E("mode_info_set", <<<<TRUE, <<ModeInfo("normal", Some("vertical"), Some(25), Null)>>>>>>),
    E("mode_info_set", <<<<TRUE, <<ModeInfo("normal", Some("hollow"), Null, Null)>>>>>>),
    E("mode_info_set", <<<<TRUE, <<ModeInfo("normal", Null, Null, Null)>>>>>>),
    E("mode_info_set", <<<<TRUE, <<ModeInfo("insert", Some("vertical"), Some(25), Some(7))>>>>>>),
    E("mode_change", <<<<"normal">>>>),
    E("mode_change", <<<<"insert">>>>) }

InitShapes == InitFresh({<<2, 1>>})

NextShapes ==
  \/ Arrive(Batches(ShapeEntries))
  \/ Dispatch
  \/ EndBatch
  \/ moveCursor
  \/ Resolve({Some(Red)})

SpecShapes == InitShapes /\ [][NextShapes]_vars

(***************************************************************************)
(* Properties.                                                             *)
(***************************************************************************)
Last(seq) == seq[Len(seq)]

\* the glyph drawn last on a cell, 0 when none was drawn since its last fill
TopCh(cell) == IF cell.ink = <<>> THEN 0 ELSE Last(cell.ink).ch

\* the entry dispatched last was a put of at least one glyph
JustPut == pc = "loop" /\ ix >= 1 /\ batch[ix].method = "put" /\ batch[ix].args # <<>>

\* entry j of the batch is the cursor_goto that decides where entry ix paints
GotoBefore(j) ==
  /\ batch[j].method = "cursor_goto" /\ batch[j].args # <<>>
  /\ \A k \in j + 1 .. ix - 1 : batch[k].method \notin {"put", "cursor_goto"}

C1_AtPrecedingGoto ==
  JustPut =>
    \A j \in 1 .. ix - 1 :
      GotoBefore(j) =>
        LET pos == Last(batch[j].args)
            run == batch[ix].args
        IN  \A i \in 1 .. Len(run) :
              (pos[1] < rows /\ pos[2] + i - 1 < cols) =>
                TopCh(grid[<<pos[1], pos[2] + i - 1>>]) = run[i][1]

\* a put that does not reach the last column paints nowhere but from the cursor on
C1_PaintsAtCursor ==
  (/\ pc = "loop" /\ pc' = "loop" /\ ix' = ix + 1
   /\ nextEntry.method = "put"
   /\ cursor.col + Len(nextEntry.args) <= cols) =>
    \A p \in DOMAIN grid :
      grid'[p] # grid[p] =>
        /\ p[1] = cursor.row
        /\ p[2] \in cursor.col .. cursor.col + Len(nextEntry.args) - 1

\* C1: the entries of a batch are dispatched in array order, the arg-tuples of
\* an entry in order: a put paints from the position the latest earlier
\* cursor_goto of the batch left (its last tuple), glyph by glyph, and changes
\* no cell but those from the cursor of the moment on, so never the cell of a
\* cursor_goto that comes later in the batch.
C1_ArrayOrder == [][C1_AtPrecedingGoto' /\ C1_PaintsAtCursor]_vars

\* a put has painted where the two tuples of the cursor_goto before it left the
\* cursor, with a cursor_goto to another cell still to come in the batch
C1_Witness ==
  /\ JustPut /\ ix = 3 /\ Len(batch) = 4
  /\ batch[2] = E("cursor_goto", <<<<0, 1>>, <<1, 0>>>>)
  /\ batch[4] = E("cursor_goto", <<<<2, 3>>>>)
  /\ TopCh(grid[<<1, 0>>]) = 120
  /\ grid[<<2, 3>>] = Transparent
  /\ cursor = [row |-> 1, col |-> 1]

\* C2: a failing command does not abort its batch: the callback leaves the loop
\* only with every entry dispatched, and having cleared the saved scroll
\* region and scheduled the cursor commit.
C2_FailureIsolated ==
  [][(pc = "loop" /\ pc' = "idle") =>
       /\ ix = Len(batch)
       /\ lastScrollRegion' = Null
       /\ Len(timers') = Len(timers) + 1]_vars

\* a scroll entry of one tuple has just been dispatched
ScrollStep ==
  /\ pc = "loop" /\ pc' = "loop" /\ ix' = ix + 1
  /\ nextEntry.method = "scroll" /\ Len(nextEntry.args) = 1

\* C3: a scroll operates on the saved region only when set_scroll_region
\* stored it earlier in the same batch and no scroll has used it since, and on
\* the default region otherwise; it leaves no saved region behind.
C3_RegionUsedOnce ==
  [][ScrollStep =>
       /\ used' = Some(IF lastScrollRegion # Null /\ regionBatch = batchNo
                       THEN lastScrollRegion[1]
                       ELSE defaultScrollRegion(State))
       /\ lastScrollRegion' = Null]_vars

\* C4: no cursor commit is still scheduled when the next batch starts, and a
\* commit shows the cursor position its own batch ended with.
C4_CommitBeforeNextBatch ==
  [][/\ (pc = "idle" /\ pc' = "loop") => timers = <<>>
     /\ (timers # <<>> /\ timers' = Tail(timers)) => shown' = Head(timers).final]_vars

\* history: how many resolutions for mode n are awaited
PendingFor(n) == Cardinality({i \in DOMAIN pending : pending[i].name = n})

\* no descriptor for mode n has been registered yet
NoneRegistered(n) == n \notin ModeNames \/ issued[n] = PendingFor(n)

\* a mode_change entry of one tuple is being dispatched
ModeChangeStep ==
  /\ pc = "loop" /\ ix' = ix + 1
  /\ nextEntry.method = "mode_change" /\ Len(nextEntry.args) = 1

\* C5, as stated: a mode_change for a mode with a resolution still awaited (or
\* for a name never registered) leaves the cursor shape and size as they were.
C5_NoOpWhilePending ==
  [][ModeChangeStep =>
       LET n == nextEntry.args[1][1]
       IN  /\ pc' = "loop"
           /\ (n \notin ModeNames \/ PendingFor(n) > 0) =>
                (shape' = shape /\ size' = size)]_vars

\* C5, amended: a mode_change never fails; while no descriptor for its name is
\* registered (each one still awaits its colour, or the name was never
\* described) it leaves the cursor shape and size as they were; otherwise it
\* applies the shape and size of the registered entry, also while a later
\* descriptor for that name awaits its colour.
C5_AppliesRegisteredOnly ==
  [][ModeChangeStep =>
       LET n == nextEntry.args[1][1]
       IN  /\ pc' = "loop"
           /\ IF NoneRegistered(n)
              THEN shape' = shape /\ size' = size
              ELSE /\ modes[n] # Null
                   /\ shape' = modes[n][1].shape
                   /\ size' = modes[n][1].size]_vars

\* mode_change("insert") was dispatched while the only descriptor for insert
\* awaited its colour, after mode_change("normal") had applied a registered one
C5_Witness ==
  /\ pc = "loop" /\ ix = 4
  /\ batch[3] = E("mode_change", <<<<"normal">>>>)
  /\ batch[4] = E("mode_change", <<<<"insert">>>>)
  /\ PendingFor("insert") = 1 /\ issued["insert"] = 1
  /\ PendingFor("normal") = 1 /\ issued["normal"] = 2
  /\ modes["insert"] = Null
  /\ shape = "line" /\ size = Some(25)

\* an entry of one tuple for the handler `method` is being dispatched
OneCall(method) ==
  /\ pc = "loop" /\ pc' = "loop" /\ ix' = ix + 1
  /\ nextEntry.method = method /\ Len(nextEntry.args) = 1

\* what update_fg, update_bg or update_sp of colour c makes of the defaults
Updated(method, c) ==
  IF c = -1 THEN colors
  ELSE CASE method = "update_fg" -> [colors EXCEPT !.fg = asColor(c)]
         [] method = "update_bg" -> [colors EXCEPT !.bg = asColor(c)]
         [] method = "update_sp" -> [colors EXCEPT !.sp = asColor(c)]

\* C6: update_fg, update_bg and update_sp leave the three defaults as they are
\* for -1 and set exactly their own default for a colour 0..0xFFFFFF (0xff0000
\* giving red, 0 giving black), and leave the pending attribute set, the
\* cursor and the saved scroll region alone.
C6_UpdateDefaults ==
  [][\A method \in {"update_fg", "update_bg", "update_sp"} :
       OneCall(method) =>
         LET c == nextEntry.args[1][1]
         IN  /\ colors' = Updated(method, c)
             /\ (method = "update_fg" /\ c = Red) => colors'.fg = <<15, 15, 0, 0, 0, 0>>
             /\ (method = "update_fg" /\ c = 0) => colors'.fg = <<0, 0, 0, 0, 0, 0>>
             /\ nextAttrs' = nextAttrs
             /\ cursor' = cursor
             /\ lastScrollRegion' = lastScrollRegion]_vars

\* update_fg(0) has set the foreground to black with the other defaults, set
\* before, and the saved scroll region kept
C6_Witness ==
  /\ pc = "loop" /\ ix = 4
  /\ batch[4] = E("update_fg", <<<<0>>>>)
  /\ colors = [fg |-> <<0, 0, 0, 0, 0, 0>>, bg |-> <<0, 10, 0, 11, 0, 12>>,
               sp |-> defaultColors.sp]
  /\ lastScrollRegion # Null
  /\ nextAttrs # Null /\ nextAttrs[1].fg = <<15, 15, 15, 15, 15, 15>>

\* a put of at least one glyph that fits before the column bound is dispatched
FittingPut ==
  /\ pc = "loop" /\ pc' = "loop" /\ ix' = ix + 1
  /\ nextEntry.method = "put" /\ nextEntry.args # <<>>
  /\ cursor.col >= 0 /\ cursor.col + Len(nextEntry.args) <= cols

\* C7: a put of n glyphs with the cursor at (r, c), c + n within the column
\* count, paints glyph i at cell (r, c + i), on the pending background and in
\* the pending foreground, and leaves the cursor at (r, c + n).
C7_PutPaintsRun ==
  [][FittingPut =>
       LET m == nextEntry.args
       IN  /\ cursor' = [row |-> cursor.row, col |-> cursor.col + Len(m)]
           /\ cursor.row \in 0 .. rows - 1 =>
                \A i \in 0 .. Len(m) - 1 :
                  grid'[<<cursor.row, cursor.col + i>>] =
                    [ink |-> <<[ch |-> m[i + 1][1], fg |-> nextAttrs[1].fg]>>,
                     bg |-> Some(nextAttrs[1].bg)]]_vars

\* the 10x5 example: cursor_goto(2,3) then put of 'a','b','c'
C7_Witness ==
  /\ cols = 10 /\ rows = 5
  /\ JustPut
  /\ batch[ix - 1] = E("cursor_goto", <<<<2, 3>>>>)
  /\ TopCh(grid[<<2, 3>>]) = 97 /\ TopCh(grid[<<2, 4>>]) = 98
  /\ TopCh(grid[<<2, 5>>]) = 99
  /\ cursor = [row |-> 2, col |-> 6]

\* the colours the claim gives a highlight_set of attrs
Resolved(attrs) ==
  LET fg == IF attrs.foreground # Null THEN asColor(attrs.foreground[1]) ELSE colors.fg
      bg == IF attrs.background # Null THEN asColor(attrs.background[1]) ELSE colors.bg
  IN  IF attrs.reverse THEN [fg |-> bg, bg |-> fg] ELSE [fg |-> fg, bg |-> bg]

\* C10: highlight_set stores the explicit foreground and background whenever
\* given (0 = black included), the theme defaults otherwise, swapped when
\* reverse is set.
C10_ExplicitOrDefault ==
  [][OneCall("highlight_set") =>
       LET a == nextEntry.args[1]
           attrs == IF a = <<>> THEN defaultAttrs ELSE a[1]
       IN  /\ nextAttrs' # Null
           /\ nextAttrs'[1].fg = Resolved(attrs).fg
           /\ nextAttrs'[1].bg = Resolved(attrs).bg]_vars

\* the region lies on the canvas
OnCanvas(reg) ==
  /\ 0 <= reg.top /\ reg.top <= reg.bottom /\ reg.bottom <= rows - 1
  /\ 0 <= reg.left /\ reg.left <= reg.right /\ reg.right <= cols - 1

\* C8: scroll(k) on the saved region, 0 < k < its height, moves the rows of
\* the region up by k and fills its last k rows with the background colour;
\* scroll(-k) moves them down by k and fills its first k rows.
C8_ScrollMovesRows ==
  [][(ScrollStep /\ lastScrollRegion # Null) =>
       LET reg == lastScrollRegion[1]
           amount == nextEntry.args[1][1]
           k == IF amount > 0 THEN amount ELSE -amount
           across == reg.left .. reg.right
       IN  (OnCanvas(reg) /\ 0 < k /\ k < reg.bottom - reg.top + 1) =>
             IF amount > 0
             THEN /\ \A row \in reg.top .. reg.bottom - k : \A col \in across :
                       grid'[<<row, col>>] = grid[<<row + k, col>>]
                  /\ \A row \in reg.bottom - k + 1 .. reg.bottom : \A col \in across :
                       grid'[<<row, col>>] = Filled(colors.bg)
             ELSE /\ \A row \in reg.top + k .. reg.bottom : \A col \in across :
                       grid'[<<row, col>>] = grid[<<row - k, col>>]
                  /\ \A row \in reg.top .. reg.top + k - 1 : \A col \in across :
                       grid'[<<row, col>>] = Filled(colors.bg)]_vars

\* scroll(1) on the region rows 1..3, columns 2..6 has moved two rows up and
\* filled the third, and scroll(-2) on rows 0..4 has moved three rows down
C8_Witness ==
  /\ pc = "loop" /\ ix = 4
  /\ batch[1] = E("set_scroll_region", <<<<0, 4, 0, 9>>>>)
  /\ batch[2] = E("scroll", <<<<-2>>>>)
  /\ batch[3] = E("set_scroll_region", <<<<1, 3, 2, 6>>>>)
  /\ batch[4] = E("scroll", <<<<1>>>>)
  /\ grid[<<0, 0>>] = Filled(colors.bg)
  /\ grid[<<4, 9>>] = grid0[<<2, 9>>]
  /\ grid[<<2, 6>>] = grid0[<<1, 6>>]
  /\ grid[<<3, 2>>] = Filled(colors.bg)

\* the rows lo..hi of the canvas are filled with the background colour
RowsFilled(lo, hi) ==
  \A row \in lo .. hi : \A col \in 0 .. cols - 1 :
    grid[<<row, col>>] = Filled(colors.bg)

\* a batch starting set_scroll_region(0,4,0,9), scroll(2), scroll(-2) on the 10x5 grid
C9_Case ==
  /\ cols = 10 /\ rows = 5
  /\ pc = "loop" /\ Len(batch) >= 3
  /\ batch[1] = E("set_scroll_region", <<<<0, 4, 0, 9>>>>)
  /\ batch[2] = E("scroll", <<<<2>>>>)
  /\ batch[3] = E("scroll", <<<<-2>>>>)

\* C9: on the 10x5 grid with the region rows 0..4, columns 0..9 set, scroll(2)
\* brings rows 2..4 to rows 0..2 and fills rows 3..4; scroll(-2) after it, on
\* the default region, puts rows 2..4 back where they were and fills rows 0..1.
C9_ScrollRoundTrip ==
  /\ (C9_Case /\ ix = 2) =>
       /\ \A row \in 0 .. 2 : \A col \in 0 .. 9 :
            grid[<<row, col>>] = grid0[<<row + 2, col>>]
       /\ RowsFilled(3, 4)
  /\ (C9_Case /\ ix = 3) =>
       /\ \A row \in 2 .. 4 : \A col \in 0 .. 9 :
            grid[<<row, col>>] = grid0[<<row, col>>]
       /\ RowsFilled(0, 1)
       /\ used = Some(defaultScrollRegion(State))

\* both scrolls are done and rows 2..4 hold their glyphs again
C9_Witness ==
  /\ C9_Case /\ ix = 3
  /\ TopCh(grid[<<2, 0>>]) = glyphAt(10, <<2, 0>>)
  /\ TopCh(grid[<<4, 9>>]) = glyphAt(10, <<4, 9>>)
  /\ TopCh(grid[<<0, 0>>]) = 0

\* a put entry of at least one glyph is being dispatched and does not throw
PutStep ==
  /\ pc = "loop" /\ pc' = "loop" /\ ix' = ix + 1
  /\ nextEntry.method = "put" /\ nextEntry.args # <<>>

\* C11, as stated: once a put has painted with the pending attribute set, the
\* set is discarded, so that a later put cannot paint with it.
C11_DiscardedAfterPut == [][PutStep => nextAttrs' = Null]_vars

\* C11, amended: a put paints every glyph in the foreground of the pending
\* attribute set and leaves the set in place, so that the next put paints with
\* it again; only a highlight_set changes the pending attribute set.
C11_PersistsAcrossPuts ==
  [][/\ PutStep =>
          /\ nextAttrs # Null /\ nextAttrs' = nextAttrs
          /\ \A i \in DOMAIN inked' :
               <<inked'[i].row, inked'[i].col>> \in DOMAIN grid =>
                 Last(grid'[<<inked'[i].row, inked'[i].col>>].ink).fg = nextAttrs[1].fg
     /\ nextAttrs' # nextAttrs =>
          pc = "loop" /\ ix < Len(batch) /\ nextEntry.method = "highlight_set"]_vars

\* highlight_set of a red foreground, then two puts: the second put has
\* painted its first glyph in red as well
C11_Witness ==
  /\ cols = 10 /\ pc = "loop" /\ ix = 3
  /\ batch[1] = E("highlight_set", <<<<Attrs(Some(Red), Null, FALSE)>>>>)
  /\ batch[2] = E("put", <<<<97>>, <<98>>, <<99>>>>)
  /\ batch[3] = E("put", <<<<97>>, <<98>>>>)
  /\ grid[<<0, 3>>].ink = <<[ch |-> 97, fg |-> asColor(Red)]>>
  /\ nextAttrs # Null /\ nextAttrs[1].fg = asColor(Red)

\* the loop is at an entry whose name has no registered handler
UnknownStep == pc = "loop" /\ ix < Len(batch) /\ nextEntry.method \notin api

\* C12: an entry whose command name has no registered handler raises no
\* error, calls no handler and changes none of the palette, the pending
\* attribute set, the modes, the cursor, the grid cells and the saved scroll
\* region; the loop goes on with the entry after it.
C12_UnknownIgnored ==
  [][UnknownStep =>
       /\ pc' = "loop" /\ batch' = batch /\ ix' = ix + 1
       /\ calls' = <<>>
       /\ UNCHANGED <<colors, nextAttrs, modes, pending, cursor, shape, size,
                      grid, color, lastScrollRegion>>]_vars

\* a bell between highlight_set and put: the put after it has painted its glyph
C12_Witness ==
  /\ pc = "loop" /\ ix = 3
  /\ batch[1].method = "highlight_set"
  /\ batch[2] = E("bell", <<<<>>>>)
  /\ batch[3] = E("put", <<<<120>>>>)
  /\ grid[<<0, 0>>].ink = <<[ch |-> 120, fg |-> asColor(Red)]>>
  /\ cursor = [row |-> 0, col |-> 1]

\* C13: while a batch is being dispatched the visible cursor position, shape
\* and size stay as they are; cursor_goto sets the logical position to its
\* arguments as given and mode_change leaves the position alone; the visible
\* cursor changes only when a deferred commit runs, and a batch schedules one
\* commit, at its end.
C13_CommitOnlyDeferred ==
  [][/\ pc = "loop" => shown' = shown /\ shownShape' = shownShape
     /\ OneCall("cursor_goto") =>
          /\ cursor' = [row |-> nextEntry.args[1][1], col |-> nextEntry.args[1][2]]
          /\ shape' = shape /\ size' = size
     /\ ModeChangeStep => cursor' = cursor
     /\ (shown' # shown \/ shownShape' # shownShape) =>
          /\ pc = "idle" /\ timers # <<>> /\ timers' = Tail(timers)
          /\ shown' = cursor /\ shownShape' = [shape |-> shape, size |-> size]
     /\ pc = "loop" =>
          IF pc' = "idle" /\ ix = Len(batch)
          THEN Len(timers') = Len(timers) + 1 ELSE timers' = timers]_vars

\* two moves (the second off the 4x2 grid) and a mode change in one batch:
\* the logical cursor has followed them, the visible cursor has not moved
C13_Witness ==
  /\ pc = "loop" /\ ix = 4
  /\ batch[1].method = "mode_info_set"
  /\ batch[2] = E("cursor_goto", <<<<1, 2>>>>)
  /\ batch[3] = E("mode_change", <<<<"normal">>>>)
  /\ batch[4] = E("cursor_goto", <<<<7, 20>>>>)
  /\ cursor = [row |-> 7, col |-> 20] /\ shape = "line" /\ size = Some(25)
  /\ shown = [row |-> 0, col |-> 0]
  /\ shownShape = [shape |-> "block", size |-> Null]
  /\ timers = <<>>

\* the entry dispatched last has a registered handler
JustDispatched == pc = "loop" /\ ix >= 1 /\ batch[ix].method \in api

\* C14: a put entry of k arg-tuples makes one call of the put handler, with
\* the k tuples in their order: its k glyphs go to cells that follow one
\* another from the cursor and its background rectangle spans k cells.  An
\* entry of any other registered command makes k calls, one per tuple, in
\* order.
C14_CallsPerEntry ==
  JustDispatched =>
    LET e == batch[ix]
        k == Len(e.args)
    IN  IF e.method = "put"
        THEN /\ calls = <<[method |-> "put", with |-> e.args]>>
             /\ Len(inked) = k
             /\ \A i \in 1 .. k :
                  /\ inked[i].row = inked[1].row => inked[i].col = inked[1].col + i - 1
                  /\ <<inked[1].row, inked[1].col + i - 1>> \in DOMAIN grid =>
                       grid[<<inked[1].row, inked[1].col + i - 1>>].bg =
                         Some(nextAttrs[1].bg)
        ELSE calls = [i \in 1 .. k |-> [method |-> e.method, with |-> e.args[i]]]

\* a cursor_goto of two tuples has left the cursor where its second call put
\* it, and the put of three glyphs after it was one call
C14_Witness ==
  /\ JustDispatched /\ ix >= 2
  /\ batch[ix - 1] = E("cursor_goto", <<<<0, 1>>, <<1, 0>>>>)
  /\ batch[ix] = E("put", <<<<97>>, <<98>>, <<99>>>>)
  /\ Len(calls) = 1 /\ Len(calls[1].with) = 3
  /\ inked = <<[row |-> 1, col |-> 0], [row |-> 1, col |-> 1], [row |-> 1, col |-> 2]>>
  /\ cursor = [row |-> 1, col |-> 3]

\* the entire grid in inclusive bounds
WholeGrid == [top |-> 0, left |-> 0, bottom |-> rows - 1, right |-> cols - 1]

\* C15: a scroll dispatched with no saved region operates on the entire grid
\* in inclusive bounds, top = 0, left = 0, bottom = rows - 1, right = cols - 1:
\* it copies, pastes and fills as a scroll on that region does.
C15_DefaultRegionInclusive ==
  [][(ScrollStep /\ lastScrollRegion = Null) =>
       LET amount == nextEntry.args[1][1]
       IN  /\ used' = Some(WholeGrid)
           /\ grid' = IF amount > 0 THEN moveRegionUp(State, amount, WholeGrid).grid
                      ELSE moveRegionDown(State, -amount, WholeGrid).grid]_vars

\* C16: scroll with a saved region and 0 < |amount| < bottom - top + 1 changes
\* no cell with a column outside left..right or a row outside top..bottom, and
\* leaves the cursor position, the palette and the pending attribute set
\* unchanged.
C16_ScrollFrame ==
  [][(ScrollStep /\ lastScrollRegion # Null) =>
       LET reg == lastScrollRegion[1]
           amount == nextEntry.args[1][1]
           k == IF amount > 0 THEN amount ELSE -amount
       IN  (0 < k /\ k < reg.bottom - reg.top + 1) =>
             /\ \A p \in DOMAIN grid :
                  (p[1] \notin reg.top .. reg.bottom \/ p[2] \notin reg.left .. reg.right)
                    => grid'[p] = grid[p]
             /\ cursor' = cursor /\ colors' = colors /\ nextAttrs' = nextAttrs]_vars

\* scroll(1) on the region rows 1..3, columns 2..6 of the painted 10x5 grid:
\* the region has changed, the cells around it and the cursor have not
C16_Witness ==
  /\ pc = "loop" /\ ix = 2
  /\ batch[1] = E("set_scroll_region", <<<<1, 3, 2, 6>>>>)
  /\ batch[2] = E("scroll", <<<<1>>>>)
  /\ used = Some([top |-> 1, bottom |-> 3, left |-> 2, right |-> 6])
  /\ grid[<<3, 2>>] = Filled(colors.bg) /\ grid[<<1, 2>>] = grid0[<<2, 2>>]
  /\ \A p \in DOMAIN grid :
       (p[1] \notin 1 .. 3 \/ p[2] \notin 2 .. 6) => grid[p] = paintedCell(cols, p)
  /\ cursor = [row |-> rows - 1, col |-> cols]
  /\ colors = defaultColors /\ nextAttrs = Some(themeAttrs)

\* C17: every glyph of a put is painted at a column inside [0, cols), the
\* cursor wrapping to column 0 of the next row when it passes the column
\* bound; the wrap scrolls nothing: no region is copied, the cells outside
\* the background rectangle and the painted cells keep their content, and the
\* saved scroll region stays as it is.
C17_WrapInsideGrid ==
  [][PutStep =>
       LET at == {<<inked'[i].row, inked'[i].col>> : i \in DOMAIN inked'}
           under == {<<cursor.row, cursor.col + i>> : i \in 0 .. Len(nextEntry.args) - 1}
       IN  /\ \A i \in DOMAIN inked' : inked'[i].col \in 0 .. cols - 1
           /\ cursor'.col \in 0 .. cols
           /\ \A p \in DOMAIN grid : p \notin at \cup under => grid'[p] = grid[p]
           /\ lastScrollRegion' = lastScrollRegion /\ used' = used]_vars

\* getColor answers one awaited request
ResolveStep == Len(pending') = Len(pending) - 1

\* C18: mode_info_set registers a descriptor with no highlight group at once,
\* under its name, with its derived shape and its size; a descriptor with a
\* highlight group is registered when its colour resolution completes, with
\* the resolved background as its colour, or the current theme foreground
\* when the resolution yields no background.
C18_RegisteredWithColour ==
  [][/\ OneCall("mode_info_set") =>
          \A n \in ModeNames :
            LET d == lastOf(nextEntry.args[1][2], n)
            IN  (d # Null /\ d[1].hl_id = Null) =>
                  modes'[n] = Some([shape |-> cursorShapeType(d[1].cursor_shape),
                                    size |-> d[1].cell_percentage, color |-> Null])
     /\ ResolveStep =>
          LET p == answer'[1].request
              bg == answer'[1].bg
          IN  modes'[p.name] =
                Some([shape |-> p.shape, size |-> p.size,
                      color |-> Some(IF bg # Null THEN asColor(bg[1])
                                     ELSE colors.fg)])]_vars

\* the shape the claim derives from the field cursor_shape of a descriptor
ClaimedShape(field) ==
  CASE field = Some("block") -> "block"
    [] field = Some("horizontal") -> "underline"
    [] field = Some("vertical") -> "line"
    [] OTHER -> "block"

\* C19: mode_info_set derives the shape block from 'block', underline from
\* 'horizontal', line from 'vertical' and block from any other or absent
\* cursor_shape, in the entry it registers and in the one it registers after
\* the colour resolution; a mode_change to a registered mode sets the cursor
\* to exactly the registered shape.
C19_ShapeDerived ==
  [][/\ OneCall("mode_info_set") =>
          \A n \in ModeNames :
            LET d == lastOf(nextEntry.args[1][2], n)
            IN  d # Null =>
                  IF d[1].hl_id = Null
                  THEN modes'[n] # Null
                       /\ modes'[n][1].shape = ClaimedShape(d[1].cursor_shape)
                  ELSE pending' # <<>>
                       /\ Last(pending').name = n
                       /\ Last(pending').shape = ClaimedShape(d[1].cursor_shape)
     /\ ResolveStep =>
          modes'[answer'[1].request.name][1].shape = answer'[1].request.shape
     /\ (ModeChangeStep /\ modes[nextEntry.args[1][1]] # Null) =>
          shape' = modes[nextEntry.args[1][1]][1].shape]_vars

\* 'vertical' then 'horizontal' described for the same mode, each followed by
\* a mode_change: the cursor has the underline shape
C19_Witness ==
  /\ pc = "loop" /\ ix = 4
  /\ batch[1] = E("mode_info_set", <<<<TRUE, <<ModeInfo("normal", Some("vertical"), Some(25), Null)>>>>>>)
  /\ batch[2] = E("mode_change", <<<<"normal">>>>)
  /\ batch[3] = E("mode_info_set", <<<<TRUE, <<ModeInfo("normal", Some("horizontal"), Some(20), Null)>>>>>>)
  /\ batch[4] = E("mode_change", <<<<"normal">>>>)
  /\ modes["normal"] = Some([shape |-> "underline", size |-> Some(20), color |-> Null])
  /\ shape = "underline"

\* C20: when a mode name has been described twice or more, then once no
\* colour resolution is awaited any longer the registry entry of that name
\* holds the shape and size of the descriptor dispatched last for it, with a
\* colour exactly when that descriptor has a highlight group.
C20_LatestDescriptorWins ==
  \A n \in ModeNames :
    (issued[n] >= 2 /\ pending = <<>>) =>
      /\ modes[n] # Null
      /\ modes[n][1].shape = ClaimedShape(latest[n][1].cursor_shape)
      /\ modes[n][1].size = latest[n][1].cell_percentage
      /\ modes[n][1].color = Null <=> latest[n][1].hl_id = Null

====
